---- MODULE Spec2Model ----
(***************************************************************************)
(* WLAN MAC filter management of HuaweiApi                                 *)
(* (custom_components/huawei_mesh_router/client/huaweiapi.py).             *)
(*                                                                         *)
(* The router keeps one filter record per radio band.  A call of           *)
(* apply_wlan_filter, set_wlan_filter_mode or _set_wlan_filter_enabled     *)
(* reads the records (GET), computes the new lists locally and replaces    *)
(* both records with one POST.  A call is split at its await points.       *)
(*                                                                         *)
(* Python values: a dict is a record whose DOMAIN is the set of keys that  *)
(* are present (dict.get of an absent key is None); a JSON boolean is one  *)
(* of the strings "true" / "false" so that it can be compared with JSON    *)
(* values that are not booleans.                                           *)
(***************************************************************************)
EXTENDS Integers, Sequences, FiniteSets, TLC

VARIABLES router, pc, op, args, state_2g, state_5g, result_2g, result_5g,
          command, ret, trace, posted, again,
          available_features, update_pc, answers

\* the state of HuaweiFeaturesDetector and of its update()
detector == <<available_features, update_pc, answers>>

\* the router and the state of the calls of HuaweiApi
api == <<router, pc, op, args, state_2g, state_5g, result_2g, result_5g,
         command, ret, trace, posted, again>>

vars == <<router, pc, op, args, state_2g, state_5g, result_2g, result_5g,
          command, ret, trace, posted, again,
          available_features, update_pc, answers>>

(***************************************************************************)
(* Bounds of the model.                                                    *)
(***************************************************************************)
\* most entries held by the four lists of the router's initial state
MaxEntries == 3

\* most entries held by the four lists of an initial state in which a band
\* or a list is missing, filtering is off or the two policies differ
MaxEntriesUnusable == 1

\* callers of the API; only caller 1 acts in Spec
Callers == {1, 2}

(***************************************************************************)
(* Values.                                                                 *)
(***************************************************************************)
WHITELIST == "WHITELIST"
BLACKLIST == "BLACKLIST"
OTHER_MODE == "OTHER_MODE"
ADD == "ADD"
REMOVE == "REMOVE"
OTHER_ACTION == "OTHER_ACTION"

FilterModes == {WHITELIST, BLACKLIST}
FilterActions == {ADD, REMOVE}

\* FilterMode.value, the number the router stores in MacFilterPolicy
FilterModeValue(m) == IF m = WHITELIST THEN 1 ELSE 0

\* MAC addresses as the strings the code compares; "aa" and "AA" are the
\* same address written in lower and upper case
MacSet == {"aa", "AA", "bb"}

Lower(m) == IF m = "AA" THEN "aa" ELSE m

SameMac(m1, m2) == Lower(m1) = Lower(m2)

\* a falsy device_name (None or the empty string)
NoName == ""
GivenName == "given"

\* the name the router stores with an entry it already lists
StoredName(m) == "stored " \o m

EntryOf(m) == [MACAddress |-> m, HostName |-> StoredName(m)]

\* values of "MACAddressControlEnabled" in a band record: JSON true, JSON
\* false and a JSON number, which is truthy but is not a boolean
JTrue == "true"
JFalse == "false"
JOne == "1"
EnabledValues == {JTrue, JFalse, JOne}

IsBool(v) == v \in {JTrue, JFalse}
Truthy(v) == v \in {JTrue, JOne}
PyBool(b) == IF b THEN JTrue ELSE JFalse

\* Python None where a dict is expected
NoneState == [None |-> TRUE]

Has(d, k) == k \in DOMAIN d

(***************************************************************************)
(* Sequence helpers.                                                       *)
(***************************************************************************)
\* list.pop() for list.pop(i): the last entry goes
DelLast(list, i) == [j \in 1..(Len(list) - 1) |-> list[j]]

\* del list[i] / list.pop(i)
Del(list, i) == [j \in 1..(Len(list) - 1) |-> IF j < i THEN list[j] ELSE list[j + 1]]

Range(s) == {s[i] : i \in DOMAIN s}

\* sequences of length n over the set S
RECURSIVE SeqsOfLen(_, _)
SeqsOfLen(S, n) ==
    IF n = 0 THEN {<<>>}
    ELSE {Append(s, x) : s \in SeqsOfLen(S, n - 1), x \in S}

SeqsUpTo(S, n) == UNION {SeqsOfLen(S, k) : k \in 0..n}

\* the access lists the router starts with: a list holds at most one entry
\* of an address (the two lists of a band may both hold it)
AccessLists(n) ==
    {l \in SeqsUpTo({EntryOf(m) : m \in MacSet}, n) :
        \A i, j \in DOMAIN l : SameMac(l[i].MACAddress, l[j].MACAddress) => i = j}

(***************************************************************************)
(* The router's records.                                                   *)
(***************************************************************************)
LABEL_2G == "2.4GHz"
LABEL_5G == "5GHz"
LABEL_OTHER == "6GHz"

\* a band record with both lists
Band(label, id, enabled, policy, wl, bl) ==
    [FrequencyBand |-> label, ID |-> id, MACAddressControlEnabled |-> enabled,
     MacFilterPolicy |-> policy, WMACAddresses |-> wl, BMACAddresses |-> bl]

\* the record d without the key k
DropKey(d, k) == [x \in DOMAIN d \ {k} |-> d[x]]

(***************************************************************************)
(* _get_filter_states: the last record labelled "2.4GHz" and the last one  *)
(* labelled "5GHz" of the GET response, None where there is none.          *)
(***************************************************************************)
\* the loop with "else" for "elif": any other label counts as 5GHz
RECURSIVE FilterStatesLoopElse(_, _, _, _)
FilterStatesLoopElse(actual_states, i, s2g, s5g) ==
    IF i > Len(actual_states) THEN <<s2g, s5g>>
    ELSE LET state == actual_states[i]
             frequency == IF Has(state, "FrequencyBand")
                          THEN state.FrequencyBand ELSE "None"
         IN IF frequency = LABEL_2G
            THEN FilterStatesLoopElse(actual_states, i + 1, state, s5g)
            ELSE FilterStatesLoopElse(actual_states, i + 1, s2g, state)

RECURSIVE FilterStatesLoop(_, _, _, _)
FilterStatesLoop(actual_states, i, s2g, s5g) ==
    IF i > Len(actual_states) THEN <<s2g, s5g>>
    ELSE LET state == actual_states[i]
             frequency == IF Has(state, "FrequencyBand")
                          THEN state.FrequencyBand ELSE "None"
         IN IF frequency = LABEL_2G
            THEN FilterStatesLoop(actual_states, i + 1, state, s5g)
            ELSE IF frequency = LABEL_5G
                 THEN FilterStatesLoop(actual_states, i + 1, s2g, state)
                 ELSE FilterStatesLoop(actual_states, i + 1, s2g, s5g)

_get_filter_states(actual_states) ==
    FilterStatesLoop(actual_states, 1, NoneState, NoneState)

(***************************************************************************)
(* verify_state of apply_wlan_filter.                                      *)
(***************************************************************************)
\* verify_state without the isinstance test
verify_state_truthy(target_state) ==
    /\ Has(target_state, "MACAddressControlEnabled")
    /\ Truthy(target_state.MACAddressControlEnabled)

verify_state(target_state) ==
    /\ Has(target_state, "MACAddressControlEnabled")
    /\ IsBool(target_state.MACAddressControlEnabled)
    /\ Truthy(target_state.MACAddressControlEnabled)

(***************************************************************************)
(* _process_access_lists.  The result is the returned triple, the raised   *)
(* error, and whether get_known_devices was awaited.                       *)
(***************************************************************************)
Raised(error) == [kind |-> "raise", error |-> error, queried |-> FALSE]

Triple(need_action, whitelist, blacklist, queried) ==
    [kind |-> "ok", need_action |-> need_action, whitelist |-> whitelist,
     blacklist |-> blacklist, queried |-> queried]

\* a missing list reported as "nothing to do" with empty lists
NullTripleNoAction == Triple(FALSE, <<>>, <<>>, FALSE)

\* return None, None, None
NullTriple == [kind |-> "null", queried |-> FALSE]

\* the loop over range(1, len(list)): the first entry is never looked at
RECURSIVE FindIndexFromSecond(_, _, _)
FindIndexFromSecond(list, device_mac, index) ==
    IF index + 1 > Len(list) THEN 0
    ELSE IF device_mac = list[index + 1].MACAddress THEN index + 1
         ELSE FindIndexFromSecond(list, device_mac, index + 1)

\* the loop "for index in range(len(list)): if device_mac == ...: break";
\* 0 stands for None, the indices are those of Python plus one
RECURSIVE FindIndex(_, _, _)
FindIndex(list, device_mac, index) ==
    IF index > Len(list) THEN 0
    ELSE IF device_mac = list[index].MACAddress THEN index
         ELSE FindIndex(list, device_mac, index + 1)

\* the loop without its return: the last device of the address wins
RECURSIVE FindDeviceLast(_, _, _)
FindDeviceLast(known_devices, device_mac, index) ==
    IF index > Len(known_devices) THEN 0
    ELSE LET later == FindDeviceLast(known_devices, device_mac, index + 1)
         IN IF later # 0 THEN later
            ELSE IF known_devices[index].mac_address = device_mac THEN index
                 ELSE 0

\* "for device in known_devices: if device.mac_address == device_mac"
RECURSIVE FindDevice(_, _, _)
FindDevice(known_devices, device_mac, index) ==
    IF index > Len(known_devices) THEN 0
    ELSE IF known_devices[index].mac_address = device_mac THEN index
         ELSE FindDevice(known_devices, device_mac, index + 1)

UnknownDeviceName(device_mac) == "Unknown device " \o device_mac

get_access_list_item(device_mac, device_name, known_devices) ==
    IF device_name # NoName
    THEN [MACAddress |-> device_mac, HostName |-> device_name]
    ELSE LET found == FindDevice(known_devices, device_mac, 1)
         IN IF found # 0
            THEN [MACAddress |-> device_mac,
                  HostName |-> known_devices[found].actual_name]
            ELSE [MACAddress |-> device_mac,
                  HostName |-> UnknownDeviceName(device_mac)]

\* REMOVE that reports a change also when there is nothing to delete
RemoveFromAlways(target, target_index) ==
    IF target_index = 0
    THEN [need_action |-> TRUE, target |-> target]
    ELSE [need_action |-> TRUE, target |-> Del(target, target_index)]

\* REMOVE from target: the entry at target_index is deleted, if there is one
RemoveFrom(target, target_index) ==
    IF target_index = 0
    THEN [need_action |-> FALSE, target |-> target]
    ELSE [need_action |-> TRUE, target |-> Del(target, target_index)]

\* ADD that drops the popped entry and makes a new one
AddToNewItem(target, other, target_index, other_index, device_mac, device_name, known_devices) ==
    LET popped == other_index # 0
        other_after == IF popped THEN Del(other, other_index) ELSE other
        item_to_add == get_access_list_item(device_mac, device_name,
                                            known_devices)
    IN IF target_index # 0
       THEN [need_action |-> FALSE, target |-> target, other |-> other_after,
             queried |-> FALSE]
       ELSE [need_action |-> TRUE, target |-> Append(target, item_to_add),
             other |-> other_after, queried |-> device_name = NoName]

\* ADD to target: the entry popped from other (if any) is appended to
\* target unless the address is already in target
AddTo(target, other, target_index, other_index, device_mac, device_name, known_devices) ==
    LET popped == other_index # 0
        other_after == IF popped THEN Del(other, other_index) ELSE other
        queried == ~popped /\ target_index = 0 /\ device_name = NoName
        item_to_add == IF popped THEN other[other_index]
                       ELSE get_access_list_item(device_mac, device_name,
                                                 known_devices)
    IN IF target_index # 0
       THEN [need_action |-> FALSE, target |-> target, other |-> other_after,
             queried |-> FALSE]
       ELSE [need_action |-> TRUE, target |-> Append(target, item_to_add),
             other |-> other_after, queried |-> queried]

_process_access_lists(state, filter_mode, filter_action, device_mac, device_name, known_devices) ==
    IF ~Has(state, "WMACAddresses") THEN NullTriple
    ELSE IF ~Has(state, "BMACAddresses") THEN NullTriple
    ELSE
      LET whitelist == state.WMACAddresses
          blacklist == state.BMACAddresses
          whitelist_index == FindIndex(whitelist, device_mac, 1)
          blacklist_index == FindIndex(blacklist, device_mac, 1)
      IN
      IF filter_action = REMOVE THEN
          IF filter_mode = BLACKLIST THEN
              LET r == RemoveFrom(blacklist, blacklist_index)
              IN Triple(r.need_action, whitelist, r.target, FALSE)
          ELSE IF filter_mode = WHITELIST THEN
              LET r == RemoveFrom(whitelist, whitelist_index)
              IN Triple(r.need_action, r.target, blacklist, FALSE)
          ELSE Raised("InvalidActionError")
      ELSE IF filter_action = ADD THEN
          IF filter_mode = BLACKLIST THEN
              LET r == AddTo(blacklist, whitelist, blacklist_index,
                             whitelist_index, device_mac, device_name,
                             known_devices)
              IN Triple(r.need_action, r.other, r.target, r.queried)
          ELSE IF filter_mode = WHITELIST THEN
              LET r == AddTo(whitelist, blacklist, whitelist_index,
                             blacklist_index, device_mac, device_name,
                             known_devices)
              IN Triple(r.need_action, r.target, r.other, r.queried)
          ELSE Raised("InvalidActionError")
      ELSE Raised("InvalidActionError")

(***************************************************************************)
(* The commands posted to the filter endpoint.  A value read with          *)
(* state.get(key) of an absent key is None: the command then lacks the     *)
(* key it would be stored under.                                           *)
(***************************************************************************)
\* {new_key: state.get(old_key)} merged into the config
CopyKey(config, new_key, state, old_key) ==
    IF Has(state, old_key)
    THEN [x \in DOMAIN config \cup {new_key} |->
             IF x = new_key THEN state[old_key] ELSE config[x]]
    ELSE config

\* ID, MacFilterPolicy and FrequencyBand copied from the fetched state
PassThrough(config, state) ==
    CopyKey(CopyKey(CopyKey(config, "ID", state, "ID"),
                    "MacFilterPolicy", state, "MacFilterPolicy"),
            "FrequencyBand", state, "FrequencyBand")

\* the config built from the lists as fetched, not as reconciled
ApplyConfigFetched(state, whitelist, blacklist) ==
    PassThrough([MACAddressControlEnabled |-> JTrue,
                 WMacFilters |-> state.WMACAddresses,
                 BMacFilters |-> state.BMACAddresses], state)

ApplyConfig(state, whitelist, blacklist) ==
    PassThrough([MACAddressControlEnabled |-> JTrue,
                 WMacFilters |-> whitelist, BMacFilters |-> blacklist], state)

\* the 5GHz config built from the lists as fetched, not as reconciled
ApplyCommand5gAsRead(s2g, r2g, s5g, r5g) ==
    [config2g |-> ApplyConfig(s2g, r2g.whitelist, r2g.blacklist),
     config5g |-> ApplyConfig(s5g, s5g.WMACAddresses, s5g.BMACAddresses)]

ApplyCommand(s2g, r2g, s5g, r5g) ==
    [config2g |-> ApplyConfig(s2g, r2g.whitelist, r2g.blacklist),
     config5g |-> ApplyConfig(s5g, r5g.whitelist, r5g.blacklist)]

\* the lists of the fetched state, as set_wlan_filter_mode and
\* _set_wlan_filter_enabled copy them
CopyLists(config, state) ==
    CopyKey(CopyKey(config, "WMacFilters", state, "WMACAddresses"),
            "BMacFilters", state, "BMACAddresses")

EnabledConfig(state, value) ==
    PassThrough(CopyLists([MACAddressControlEnabled |-> PyBool(value)], state),
                state)

EnabledCommand(s2g, s5g, value) ==
    [config2g |-> EnabledConfig(s2g, value),
     config5g |-> EnabledConfig(s5g, value)]

ModeConfig(state, value) ==
    LET base == CopyLists(CopyKey([MacFilterPolicy |-> FilterModeValue(value)],
                                  "MACAddressControlEnabled", state,
                                  "MACAddressControlEnabled"), state)
    IN CopyKey(CopyKey(base, "ID", state, "ID"),
               "FrequencyBand", state, "FrequencyBand")

\* the policy rewritten on the 5GHz band only
ModeCommandOnly5g(s2g, s5g, value) ==
    [config2g |-> CopyKey(ModeConfig(s2g, value), "MacFilterPolicy", s2g,
                          "MacFilterPolicy"),
     config5g |-> ModeConfig(s5g, value)]

ModeCommand(s2g, s5g, value) ==
    [config2g |-> ModeConfig(s2g, value),
     config5g |-> ModeConfig(s5g, value)]

\* the flag taken as it is, without the isinstance test
CurrentValueTruthy(state) ==
    /\ Has(state, "MACAddressControlEnabled")
    /\ Truthy(state.MACAddressControlEnabled)

\* isinstance(v, bool) and v, of state.get("MACAddressControlEnabled")
CurrentValue(state) == verify_state(state)

(***************************************************************************)
(* The router applying a posted command in full: the record of each band   *)
(* takes the values of its config; a value that is None leaves the key     *)
(* of the record as it was.                                                *)
(***************************************************************************)
ApplyToRecord(record, config) ==
    LET r1 == CopyKey(record, "MACAddressControlEnabled", config,
                      "MACAddressControlEnabled")
        r2 == CopyKey(r1, "WMACAddresses", config, "WMacFilters")
        r3 == CopyKey(r2, "BMACAddresses", config, "BMacFilters")
        r4 == CopyKey(r3, "MacFilterPolicy", config, "MacFilterPolicy")
    IN CopyKey(r4, "ID", config, "ID")

RouterApply(records, cmd) ==
    [i \in DOMAIN records |->
        IF Has(records[i], "FrequencyBand") /\ records[i].FrequencyBand = LABEL_2G
        THEN ApplyToRecord(records[i], cmd.config2g)
        ELSE IF Has(records[i], "FrequencyBand")
                /\ records[i].FrequencyBand = LABEL_5G
             THEN ApplyToRecord(records[i], cmd.config5g)
             ELSE records[i]]

(***************************************************************************)
(* The states the router can be in when the first call is made.            *)
(***************************************************************************)
None == "None"

\* the four lists <<whitelist 2.4GHz, blacklist 2.4GHz, whitelist 5GHz,
\* blacklist 5GHz>> holding at most n entries together
ListQuads(n) ==
    {q \in AccessLists(n) \X AccessLists(n) \X AccessLists(n) \X AccessLists(n) :
        Len(q[1]) + Len(q[2]) + Len(q[3]) + Len(q[4]) <= n}

\* the record of a band: enabled = None and a key of missing are absent
BandRecord(label, id, enabled, policy, wl, bl, missing) ==
    LET full == Band(label, id, enabled, policy, wl, bl)
        keys == (DOMAIN full \ missing)
                \ (IF enabled = None THEN {"MACAddressControlEnabled"} ELSE {})
    IN [k \in keys |-> full[k]]

\* how a band shows in the response
Slots == {"present", "omitted", "unrecognised"}

SlotRecords(slot, label, record) ==
    IF slot = "present" THEN <<record>>
    ELSE IF slot = "unrecognised"
         THEN <<[record EXCEPT !.FrequencyBand = LABEL_OTHER]>>
         ELSE <<>>

Response(slots, enabled, policy, q, missing) ==
    SlotRecords(slots[1], LABEL_2G,
                BandRecord(LABEL_2G, "id2g", enabled[1], policy[1], q[1], q[2],
                           missing[1]))
    \o SlotRecords(slots[2], LABEL_5G,
                   BandRecord(LABEL_5G, "id5g", enabled[2], policy[2], q[3], q[4],
                              missing[2]))

ListKeys == {"WMACAddresses", "BMACAddresses"}

Usable == [slots |-> <<"present", "present">>, enabled |-> <<JTrue, JTrue>>,
           policy |-> <<0, 0>>, missing |-> <<{}, {}>>]

\* the settings that differ from Usable in one respect
Unusable ==
    {[Usable EXCEPT !.slots = s] : s \in (Slots \X Slots) \ {Usable.slots}}
    \cup {[Usable EXCEPT !.enabled = e] :
             e \in ((EnabledValues \cup {None}) \X (EnabledValues \cup {None}))
                   \ {Usable.enabled}}
    \cup {[Usable EXCEPT !.policy = p] :
             p \in ({0, 1} \X {0, 1}) \ {Usable.policy}}
    \cup {[Usable EXCEPT !.missing = m] :
             m \in ((SUBSET ListKeys) \X (SUBSET ListKeys)) \ {Usable.missing}}

RouterStates ==
    {Response(Usable.slots, Usable.enabled, Usable.policy, q, Usable.missing) :
        q \in ListQuads(MaxEntries)}
    \cup {Response(u.slots, u.enabled, u.policy, q, u.missing) :
             u \in Unusable, q \in ListQuads(MaxEntriesUnusable)}

\* the answers of the known-device listing (api/system/HostInfo)
KnownDeviceLists ==
    {<<>>,
     <<[mac_address |-> "bb", actual_name |-> "host bb"],
       [mac_address |-> "aa", actual_name |-> "host aa"],
       [mac_address |-> "aa", actual_name |-> "host aa 2"]>>}

\* the addresses the callers pass
TargetMacs == {"aa", "bb"}

(***************************************************************************)
(* HuaweiFeaturesDetector.  update() probes the four features in turn,     *)
(* each with a GET of the endpoint of the feature.                         *)
(***************************************************************************)
FEATURE_NFC == "feature_nfc"
FEATURE_WIFI_80211R == "feature_wifi_80211r"
FEATURE_WIFI_TWT == "feature_wifi_twt"
FEATURE_WLAN_FILTER == "feature_wlan_filter"

Features ==
    {FEATURE_NFC, FEATURE_WIFI_80211R, FEATURE_WIFI_TWT, FEATURE_WLAN_FILTER}

\* what the router does with a GET of the endpoint of a feature: it answers
\* with the value looked for, answers without it, answers null, rejects
\* the request as unauthorized, or the request fails in another way
ANSWER_VALUE == "value"
ANSWER_NO_VALUE == "no value"
ANSWER_NULL == "null"
ANSWER_UNAUTHORIZED == "unauthorized"
ANSWER_FAILED == "failed"

Answers ==
    {ANSWER_VALUE, ANSWER_NO_VALUE, ANSWER_NULL, ANSWER_UNAUTHORIZED,
     ANSWER_FAILED}

\* the outcomes of a coroutine: a value returned, an exception raised
Returns(value) == [kind |-> "return", value |-> value]
Raises(error, category) == [kind |-> "raise", error |-> error, category |-> category]

\* await self._core_api.get(url): the decoded answer, or ApiCallError
CoreApiGet(answer) ==
    IF answer = ANSWER_UNAUTHORIZED THEN Raises("ApiCallError", "unauthorized")
    ELSE IF answer = ANSWER_FAILED THEN Raises("ApiCallError", "other")
    ELSE Returns(answer)

\* self._core_api.get(url) without await: a coroutine object, whatever the
\* router would do with the request
COROUTINE == "coroutine"

\* the decorator unauthorized_as_false around the outcome of func
unauthorized_as_false(outcome) ==
    IF /\ outcome.kind = "raise"
       /\ outcome.error = "ApiCallError"
       /\ outcome.category = "unauthorized"
    THEN Returns(FALSE)
    ELSE outcome

\* the decorator log_feature: the outcome is logged and passed on
log_feature(outcome) == outcome

\* "data = await self._core_api.get(url); return data.get(...) is not
\* None", the body of the probes of NFC, 802.11r and TWT
SwitchProbe(answer) ==
    LET data == CoreApiGet(answer)
    IN IF data.kind = "raise" THEN data
       ELSE IF data.value = ANSWER_NULL THEN Raises("AttributeError", "none")
       ELSE Returns(data.value = ANSWER_VALUE)

_is_nfc_available(answer) ==
    log_feature(unauthorized_as_false(SwitchProbe(answer)))

_is_wifi_80211r_available(answer) ==
    log_feature(unauthorized_as_false(SwitchProbe(answer)))

_is_wifi_twt_available(answer) ==
    log_feature(unauthorized_as_false(SwitchProbe(answer)))

\* "data = self._core_api.get(_URL_WLAN_FILTER); return data is not None"
_is_wlan_filter_available(answer) ==
    LET data == COROUTINE
    IN log_feature(unauthorized_as_false(Returns(data # None)))

NoArgs == [mode |-> None, action |-> None, mac |-> None, name |-> None]
NoResult == [kind |-> None, queried |-> FALSE]
NoCommand == [None |-> TRUE]

Init ==
    /\ router \in RouterStates
    /\ pc = [c \in Callers |-> "idle"]
    /\ op = [c \in Callers |-> None]
    /\ args = [c \in Callers |-> NoArgs]
    /\ state_2g = [c \in Callers |-> NoneState]
    /\ state_5g = [c \in Callers |-> NoneState]
    /\ result_2g = [c \in Callers |-> NoResult]
    /\ result_5g = [c \in Callers |-> NoResult]
    /\ command = [c \in Callers |-> NoCommand]
    /\ ret = [c \in Callers |-> None]
    /\ trace = [c \in Callers |-> <<>>]
    /\ posted = [c \in Callers |-> <<>>]
    /\ again = [c \in Callers |-> FALSE]
    /\ available_features = {}
    /\ update_pc = "nfc"
    /\ answers = [f \in Features |-> None]

(***************************************************************************)
(* The calls.  Each action runs a call from one await to the next: the     *)
(* first action of a call awaits the GET of the filter endpoint, Post      *)
(* awaits the POST.  ret is None while the call runs.                      *)
(***************************************************************************)
RetTrue == "True"
RetFalse == "False"

\* a caller makes one call, from any state of the router, and may repeat it
CanCall(c) == pc[c] = "idle"

\* a call starts: the locals of the previous call are gone
Enter(c, name, a, states) ==
    /\ op' = [op EXCEPT ![c] = name]
    /\ args' = [args EXCEPT ![c] = a]
    /\ state_2g' = [state_2g EXCEPT ![c] = states[1]]
    /\ state_5g' = [state_5g EXCEPT ![c] = states[2]]
    /\ result_2g' = [result_2g EXCEPT ![c] = NoResult]
    /\ result_5g' = [result_5g EXCEPT ![c] = NoResult]
    /\ trace' = [trace EXCEPT ![c] = <<"GET">>]
    /\ posted' = [posted EXCEPT ![c] = <<>>]

\* the call returns value
Return(c, value) ==
    /\ pc' = [pc EXCEPT ![c] = "done"]
    /\ ret' = [ret EXCEPT ![c] = value]

\* the call goes on at label
Goto(c, label) ==
    /\ pc' = [pc EXCEPT ![c] = label]
    /\ ret' = [ret EXCEPT ![c] = None]

\* apply_wlan_filter up to the first call of _process_access_lists
ApplyEnter(c, filter_mode, filter_action, device_mac, device_name, repeated) ==
    LET states == _get_filter_states(router)
    IN /\ Enter(c, "apply_wlan_filter",
                [mode |-> filter_mode, action |-> filter_action,
                 mac |-> device_mac, name |-> device_name], states)
       /\ again' = [again EXCEPT ![c] = repeated]
       /\ IF states[1] = NoneState THEN Return(c, RetFalse)
          ELSE IF states[2] = NoneState THEN Return(c, RetFalse)
          ELSE IF ~verify_state(states[1]) \/ ~verify_state(states[2])
               THEN Return(c, RetFalse)
               ELSE Goto(c, "process_2g")
       /\ command' = [command EXCEPT ![c] = NoCommand]
       /\ UNCHANGED router
       /\ UNCHANGED detector

apply_wlan_filter(c) ==
    /\ CanCall(c)
    /\ \E filter_mode \in FilterModes \cup {OTHER_MODE},
          filter_action \in FilterActions \cup {OTHER_ACTION},
          device_mac \in TargetMacs, device_name \in {NoName, GivenName} :
          ApplyEnter(c, filter_mode, filter_action, device_mac, device_name,
                     FALSE)

\* the caller makes the call it has just made once more
apply_wlan_filter_again(c) ==
    /\ pc[c] = "done"
    /\ op[c] = "apply_wlan_filter"
    /\ ~again[c]
    /\ ApplyEnter(c, args[c].mode, args[c].action, args[c].mac, args[c].name,
                  TRUE)

\* the result of _process_access_lists with the listing it was given
Processed(c, state, known_devices) ==
    LET r == _process_access_lists(state, args[c].mode, args[c].action,
                                   args[c].mac, args[c].name, known_devices)
    IN r @@ [known_devices |-> IF r.queried THEN known_devices ELSE <<>>]

\* the listing fetched for every band, needed or not
TracedAlways(c, r) == Append(trace[c], "HOSTS")

Traced(c, r) == IF r.queried THEN Append(trace[c], "HOSTS") ELSE trace[c]

\* the reconciliation of the 2.4GHz band
ProcessAccessLists2g(c) ==
    /\ pc[c] = "process_2g"
    /\ \E known_devices \in KnownDeviceLists :
         LET r == Processed(c, state_2g[c], known_devices)
         IN /\ result_2g' = [result_2g EXCEPT ![c] = r]
            /\ trace' = [trace EXCEPT ![c] = Traced(c, r)]
            /\ IF r.kind = "raise" THEN Return(c, r.error)
               ELSE IF r.kind = "null" THEN Return(c, RetFalse)
               ELSE Goto(c, "process_5g")
    /\ UNCHANGED <<router, op, args, state_2g, state_5g, result_5g, command,
                   posted, again>>
    /\ UNCHANGED detector

\* the reconciliation of the 5GHz band and the command
ProcessAccessLists5g(c) ==
    /\ pc[c] = "process_5g"
    /\ \E known_devices \in KnownDeviceLists :
         LET r == Processed(c, state_5g[c], known_devices)
         IN /\ result_5g' = [result_5g EXCEPT ![c] = r]
            /\ trace' = [trace EXCEPT ![c] = Traced(c, r)]
            /\ IF r.kind = "raise"
               THEN Return(c, r.error) /\ UNCHANGED command
               ELSE IF r.kind = "null"
               THEN Return(c, RetFalse) /\ UNCHANGED command
               ELSE IF ~result_2g[c].need_action /\ ~r.need_action
               THEN Return(c, RetTrue) /\ UNCHANGED command
               ELSE /\ Goto(c, "post")
                    /\ command' = [command EXCEPT ![c] =
                          ApplyCommand(state_2g[c], result_2g[c], state_5g[c], r)]
    /\ UNCHANGED <<router, op, args, state_2g, state_5g, result_2g, posted,
                   again>>
    /\ UNCHANGED detector

\* the POST issued a second time
PostTwice(c) ==
    /\ pc[c] = "post"
    /\ router' = RouterApply(RouterApply(router, command[c]), command[c])
    /\ posted' = [posted EXCEPT ![c] = posted[c] \o <<command[c], command[c]>>]
    /\ trace' = [trace EXCEPT ![c] = trace[c] \o <<"POST", "POST">>]
    /\ Return(c, RetTrue)
    /\ UNCHANGED <<op, args, state_2g, state_5g, result_2g, result_5g, command,
                   again>>
    /\ UNCHANGED detector

\* await self._core_api.post(_URL_WLAN_FILTER, command); return True
Post(c) ==
    /\ pc[c] = "post"
    /\ router' = RouterApply(router, command[c])
    /\ posted' = [posted EXCEPT ![c] = Append(posted[c], command[c])]
    /\ trace' = [trace EXCEPT ![c] = Append(trace[c], "POST")]
    /\ Return(c, RetTrue)
    /\ UNCHANGED <<op, args, state_2g, state_5g, result_2g, result_5g, command,
                   again>>
    /\ UNCHANGED detector

_set_wlan_filter_enabled(c) ==
    /\ CanCall(c)
    /\ \E value \in BOOLEAN :
         LET states == _get_filter_states(router)
         IN /\ Enter(c, "_set_wlan_filter_enabled", [value |-> value], states)
            /\ IF states[1] = NoneState THEN Return(c, RetFalse) /\ UNCHANGED command
               ELSE IF states[2] = NoneState
               THEN Return(c, RetFalse) /\ UNCHANGED command
               ELSE LET current_state == CurrentValue(states[1])
                                         /\ CurrentValue(states[2])
                    IN IF current_state = value
                       THEN Return(c, RetTrue) /\ UNCHANGED command
                       ELSE /\ Goto(c, "post")
                            /\ command' = [command EXCEPT ![c] =
                                  EnabledCommand(states[1], states[2], value)]
    /\ again' = [again EXCEPT ![c] = FALSE]
    /\ UNCHANGED router
    /\ UNCHANGED detector

set_wlan_filter_mode(c) ==
    /\ CanCall(c)
    /\ \E value \in FilterModes :
         LET states == _get_filter_states(router)
         IN /\ Enter(c, "set_wlan_filter_mode", [value |-> value], states)
            /\ IF states[1] = NoneState THEN Return(c, RetFalse) /\ UNCHANGED command
               ELSE IF states[2] = NoneState
               THEN Return(c, RetFalse) /\ UNCHANGED command
               ELSE IF /\ Has(states[2], "MacFilterPolicy")
                       /\ states[2].MacFilterPolicy = FilterModeValue(value)
                    THEN Return(c, RetTrue) /\ UNCHANGED command
                    ELSE /\ Goto(c, "post")
                         /\ command' = [command EXCEPT ![c] =
                               ModeCommand(states[1], states[2], value)]
    /\ again' = [again EXCEPT ![c] = FALSE]
    /\ UNCHANGED router
    /\ UNCHANGED detector

\* one caller: the calls are made one after the other
Next ==
    \/ apply_wlan_filter(1)
    \/ apply_wlan_filter_again(1)
    \/ ProcessAccessLists2g(1)
    \/ ProcessAccessLists5g(1)
    \/ Post(1)
    \/ _set_wlan_filter_enabled(1)
    \/ set_wlan_filter_mode(1)

Spec == Init /\ [][Next]_vars

(***************************************************************************)
(* Two callers.  Nothing in apply_wlan_filter holds a lock or queues the   *)
(* calls: each coroutine runs from one await to the next, and between the  *)
(* GET of one call and its POST the other call may run any of its steps.   *)
(***************************************************************************)
MaxEntriesConcurrent == 1

InitConc ==
    /\ Init
    /\ router \in {Response(Usable.slots, Usable.enabled, Usable.policy, q,
                             Usable.missing) : q \in ListQuads(MaxEntriesConcurrent)}

\* a call of apply_wlan_filter with a mode and an action the code knows
ConcurrentApply(c) ==
    /\ CanCall(c)
    /\ \E filter_mode \in FilterModes, filter_action \in FilterActions,
          device_mac \in TargetMacs, device_name \in {NoName, GivenName} :
          ApplyEnter(c, filter_mode, filter_action, device_mac, device_name,
                     FALSE)

NextConc ==
    \/ \E c \in Callers : ConcurrentApply(c)
    \/ \E c \in Callers : ProcessAccessLists2g(c)
    \/ \E c \in Callers : ProcessAccessLists5g(c)
    \/ \E c \in Callers : Post(c)

SpecConc == InitConc /\ [][NextConc]_vars

(***************************************************************************)
(* Transport failures.  An await of self._core_api.get or                  *)
(* self._core_api.post may raise ApiCallError instead of returning.  No    *)
(* function of HuaweiApi has a try statement: the error leaves the call    *)
(* at the await.  The failed request is written in trace as such.          *)
(***************************************************************************)
RetApiCallError == "ApiCallError"

GET_FAILED == "GET failed"
HOSTS_FAILED == "HOSTS failed"
POST_FAILED == "POST failed"

\* the call named name ends at its first await, the GET of the filter
\* endpoint in _get_filter_states
RaisedAtGet(c, name, a, value) ==
    /\ op' = [op EXCEPT ![c] = name]
    /\ args' = [args EXCEPT ![c] = a]
    /\ state_2g' = [state_2g EXCEPT ![c] = NoneState]
    /\ state_5g' = [state_5g EXCEPT ![c] = NoneState]
    /\ result_2g' = [result_2g EXCEPT ![c] = NoResult]
    /\ result_5g' = [result_5g EXCEPT ![c] = NoResult]
    /\ command' = [command EXCEPT ![c] = NoCommand]
    /\ trace' = [trace EXCEPT ![c] = <<GET_FAILED>>]
    /\ posted' = [posted EXCEPT ![c] = <<>>]
    /\ again' = [again EXCEPT ![c] = FALSE]
    /\ Return(c, value)
    /\ UNCHANGED router
    /\ UNCHANGED detector

\* the failure of the GET taken for a missing band
GetRaisesAsFalse(c) ==
    /\ CanCall(c)
    /\ \/ \E filter_mode \in FilterModes, filter_action \in FilterActions,
             device_mac \in TargetMacs, device_name \in {NoName, GivenName} :
             RaisedAtGet(c, "apply_wlan_filter",
                         [mode |-> filter_mode, action |-> filter_action,
                          mac |-> device_mac, name |-> device_name], RetFalse)
       \/ \E value \in BOOLEAN :
             RaisedAtGet(c, "_set_wlan_filter_enabled", [value |-> value],
                         RetFalse)
       \/ \E value \in FilterModes :
             RaisedAtGet(c, "set_wlan_filter_mode", [value |-> value], RetFalse)

\* await self._core_api.get(_URL_WLAN_FILTER) raises
GetRaises(c) ==
    /\ CanCall(c)
    /\ \/ \E filter_mode \in FilterModes, filter_action \in FilterActions,
             device_mac \in TargetMacs, device_name \in {NoName, GivenName} :
             RaisedAtGet(c, "apply_wlan_filter",
                         [mode |-> filter_mode, action |-> filter_action,
                          mac |-> device_mac, name |-> device_name],
                         RetApiCallError)
       \/ \E value \in BOOLEAN :
             RaisedAtGet(c, "_set_wlan_filter_enabled", [value |-> value],
                         RetApiCallError)
       \/ \E value \in FilterModes :
             RaisedAtGet(c, "set_wlan_filter_mode", [value |-> value],
                         RetApiCallError)

\* await self.get_known_devices() raises in get_access_list_item: the
\* reconciliation of the band, and the call, end there
KnownDevicesRaises(c) ==
    /\ pc[c] \in {"process_2g", "process_5g"}
    /\ LET state == IF pc[c] = "process_2g" THEN state_2g[c] ELSE state_5g[c]
       IN Processed(c, state, <<>>).queried
    /\ trace' = [trace EXCEPT ![c] = Append(trace[c], HOSTS_FAILED)]
    /\ Return(c, RetApiCallError)
    /\ UNCHANGED <<router, op, args, state_2g, state_5g, result_2g, result_5g,
                   command, posted, again>>
    /\ UNCHANGED detector

\* await self._core_api.post(_URL_WLAN_FILTER, command) raises: the router
\* may or may not have taken the command
PostRaises(c) ==
    /\ pc[c] = "post"
    /\ router' \in {router, RouterApply(router, command[c])}
    /\ posted' = [posted EXCEPT ![c] = Append(posted[c], command[c])]
    /\ trace' = [trace EXCEPT ![c] = Append(trace[c], POST_FAILED)]
    /\ Return(c, RetApiCallError)
    /\ UNCHANGED <<op, args, state_2g, state_5g, result_2g, result_5g, command,
                   again>>
    /\ UNCHANGED detector

NextFail ==
    \/ Next
    \/ GetRaises(1)
    \/ KnownDevicesRaises(1)
    \/ PostRaises(1)

SpecFail == Init /\ [][NextFail]_vars

(***************************************************************************)
(* HuaweiFeaturesDetector.update: one action for each probe.  answers      *)
(* keeps what the router does with the request of each feature.            *)
(***************************************************************************)
\* "if await self._is_..._available(): self._available_features.add(...)";
\* an exception of the probe ends update()
Probed(feature, answer, outcome, next) ==
    /\ answers' = [answers EXCEPT ![feature] = answer]
    /\ IF outcome.kind = "raise"
       THEN update_pc' = outcome.error /\ UNCHANGED available_features
       ELSE /\ update_pc' = next
            /\ available_features' =
                  IF outcome.value THEN available_features \cup {feature}
                  ELSE available_features
    /\ UNCHANGED api

UpdateNfc ==
    /\ update_pc = "nfc"
    /\ \E answer \in Answers :
          Probed(FEATURE_NFC, answer, _is_nfc_available(answer), "wifi_80211r")

UpdateWifi80211r ==
    /\ update_pc = "wifi_80211r"
    /\ \E answer \in Answers :
          Probed(FEATURE_WIFI_80211R, answer, _is_wifi_80211r_available(answer),
                 "wifi_twt")

UpdateWifiTwt ==
    /\ update_pc = "wifi_twt"
    /\ \E answer \in Answers :
          Probed(FEATURE_WIFI_TWT, answer, _is_wifi_twt_available(answer),
                 "wlan_filter")

UpdateWlanFilter ==
    /\ update_pc = "wlan_filter"
    /\ \E answer \in Answers :
          Probed(FEATURE_WLAN_FILTER, answer, _is_wlan_filter_available(answer),
                 "done")

\* the detector of an API whose router has both bands and empty lists
InitFeatures ==
    /\ Init
    /\ router \in {Response(Usable.slots, Usable.enabled, Usable.policy, q,
                             Usable.missing) : q \in ListQuads(0)}

NextFeatures ==
    \/ UpdateNfc
    \/ UpdateWifi80211r
    \/ UpdateWifiTwt
    \/ UpdateWlanFilter

SpecFeatures == InitFeatures /\ [][NextFeatures]_vars

(***************************************************************************)
(* Properties.                                                             *)
(***************************************************************************)
Called(c, name) == pc[c] # "idle" /\ op[c] = name

Returned(c, name) == pc[c] = "done" /\ op[c] = name

ValidArgs(c) == args[c].mode \in FilterModes /\ args[c].action \in FilterActions

\* the record of the router labelled label, as a set (empty if there is none)
RouterRecords(label) ==
    {router[i] : i \in {j \in DOMAIN router :
                          /\ Has(router[j], "FrequencyBand")
                          /\ router[j].FrequencyBand = label}}

\* the flag of the band is the boolean true
FlagIsTrue(state) ==
    /\ Has(state, "MACAddressControlEnabled")
    /\ state.MACAddressControlEnabled = JTrue

BothPresent(c) == state_2g[c] # NoneState /\ state_5g[c] # NoneState

\* the router is as the call has read it
RouterAsRead(c) ==
    /\ RouterRecords(LABEL_2G) = {state_2g[c]}
    /\ RouterRecords(LABEL_5G) = {state_5g[c]}

NoWrite(c) == posted[c] = <<>> /\ pc[c] # "post" /\ \A i \in DOMAIN trace[c] : trace[c][i] # "POST"

\* C1: a call of apply_wlan_filter that reads both bands and finds the flag
\* MACAddressControlEnabled of the 2.4GHz or of the 5GHz band not to be the
\* boolean true returns False without a POST, and the router is unchanged.
C1_PreconditionGating ==
    \A c \in Callers :
        (/\ Called(c, "apply_wlan_filter")
         /\ BothPresent(c)
         /\ ~FlagIsTrue(state_2g[c]) \/ ~FlagIsTrue(state_5g[c]))
        => /\ pc[c] = "done"
           /\ ret[c] = RetFalse
           /\ NoWrite(c)
           /\ RouterAsRead(c)

\* an ADD, with both bands read, whose 5GHz flag is a number and not a boolean
C1_Witness ==
    /\ Returned(1, "apply_wlan_filter")
    /\ BothPresent(1)
    /\ ValidArgs(1) /\ args[1].action = ADD
    /\ FlagIsTrue(state_2g[1])
    /\ Has(state_5g[1], "MACAddressControlEnabled")
    /\ state_5g[1].MACAddressControlEnabled = JOne
    /\ ret[1] = RetFalse

\* the bands the call has reconciled: the state read and the triple returned
Reconciled(c) ==
    {b \in {[band |-> LABEL_2G, state |-> state_2g[c], result |-> result_2g[c]],
            [band |-> LABEL_5G, state |-> state_5g[c], result |-> result_5g[c]]} :
        b.result.kind = "ok"}

ListsPresent(state) == Has(state, "WMACAddresses") /\ Has(state, "BMACAddresses")

\* both bands read, filtering on and all four lists there
UsableRead(c) ==
    /\ BothPresent(c)
    /\ FlagIsTrue(state_2g[c]) /\ FlagIsTrue(state_5g[c])
    /\ ListsPresent(state_2g[c]) /\ ListsPresent(state_5g[c])

\* the list named by mode and the other list, of a band state and of a triple
TargetIn(mode, state) ==
    IF mode = WHITELIST THEN state.WMACAddresses ELSE state.BMACAddresses
OtherIn(mode, state) ==
    IF mode = WHITELIST THEN state.BMACAddresses ELSE state.WMACAddresses
TargetOut(mode, result) ==
    IF mode = WHITELIST THEN result.whitelist ELSE result.blacklist
OtherOut(mode, result) ==
    IF mode = WHITELIST THEN result.blacklist ELSE result.whitelist

\* the list has an entry of the address mac
Holds(list, mac) == \E i \in DOMAIN list : list[i].MACAddress = mac

Occurrences(list, mac) == Cardinality({i \in DOMAIN list : list[i].MACAddress = mac})

\* the list without its entries of the address mac
Without(list, mac) == SelectSeq(list, LAMBDA e : e.MACAddress # mac)

C3_MoveNotDuplicate ==
    \A c \in Callers : \A b \in Reconciled(c) :
        LET mode == args[c].mode
            mac == args[c].mac
            A == OtherIn(mode, b.state)
            B == TargetIn(mode, b.state)
        IN (/\ Called(c, "apply_wlan_filter")
            /\ args[c].action = ADD /\ mode \in FilterModes
            /\ Holds(A, mac) /\ ~Holds(B, mac))
           => /\ b.result.need_action
              /\ OtherOut(mode, b.result) = Without(A, mac)
              /\ Occurrences(TargetOut(mode, b.result), mac) = 1
              /\ \A i \in DOMAIN TargetOut(mode, b.result) :
                    TargetOut(mode, b.result)[i].MACAddress = mac
                    => /\ TargetOut(mode, b.result)[i] \in Range(A)
                       /\ TargetOut(mode, b.result)[i].HostName = StoredName(mac)

\* an entry moved from the blacklist to the whitelist of the 2.4GHz band by
\* a call that came with a name of its own
C3_Witness ==
    /\ Called(1, "apply_wlan_filter")
    /\ args[1].action = ADD /\ args[1].mode = WHITELIST
    /\ args[1].name = GivenName
    /\ result_2g[1].kind = "ok"
    /\ Holds(state_2g[1].BMACAddresses, args[1].mac)
    /\ ~Holds(state_2g[1].WMACAddresses, args[1].mac)
    /\ Holds(result_2g[1].whitelist, args[1].mac)
    /\ ~Holds(result_2g[1].blacklist, args[1].mac)

\* C5: REMOVE under mode M returns need_action false and both lists as they
\* were when the list named by M has no entry of the address; otherwise it
\* returns need_action true and that list without its first entry of the
\* address.  The other list is returned as it was in both cases.
C5_RemoveSemantics ==
    \A c \in Callers : \A b \in Reconciled(c) :
        LET mode == args[c].mode
            mac == args[c].mac
            T == TargetIn(mode, b.state)
            T2 == TargetOut(mode, b.result)
        IN (/\ Called(c, "apply_wlan_filter")
            /\ args[c].action = REMOVE /\ mode \in FilterModes)
           => /\ OtherOut(mode, b.result) = OtherIn(mode, b.state)
              /\ ~Holds(T, mac) => ~b.result.need_action /\ T2 = T
              /\ Holds(T, mac) =>
                    /\ b.result.need_action
                    /\ \E i \in DOMAIN T :
                          /\ T[i].MACAddress = mac
                          /\ \A j \in 1..(i - 1) : T[j].MACAddress # mac
                          /\ T2 = SubSeq(T, 1, i - 1) \o SubSeq(T, i + 1, Len(T))

\* a REMOVE from the whitelist of an address that both lists of the band hold,
\* behind another entry of the whitelist
C5_Witness ==
    /\ Called(1, "apply_wlan_filter")
    /\ args[1].action = REMOVE /\ args[1].mode = WHITELIST
    /\ result_2g[1].kind = "ok"
    /\ Len(state_2g[1].WMACAddresses) = 2
    /\ state_2g[1].WMACAddresses[2].MACAddress = args[1].mac
    /\ Holds(state_2g[1].BMACAddresses, args[1].mac)
    /\ Holds(result_2g[1].blacklist, args[1].mac)
    /\ ~Holds(result_2g[1].whitelist, args[1].mac)

\* the lists of the router's record of a band hold mac in the list named by
\* mode and not in the other list
OnlyInTarget(label, mode, mac) ==
    \A r \in RouterRecords(label) :
        /\ ListsPresent(r)
        /\ Holds(TargetIn(mode, r), mac)
        /\ ~Holds(OtherIn(mode, r), mac)

\* C4: when apply_wlan_filter(mode, ADD, mac) has returned True, the router
\* holds the address, on both bands, in the list named by mode and not in the
\* other list.
C4_MutualExclusionAfterAdd ==
    \A c \in Callers :
        (/\ Returned(c, "apply_wlan_filter")
         /\ args[c].action = ADD /\ args[c].mode \in FilterModes
         /\ ret[c] = RetTrue)
        => /\ OnlyInTarget(LABEL_2G, args[c].mode, args[c].mac)
           /\ OnlyInTarget(LABEL_5G, args[c].mode, args[c].mac)

\* the first entry of list whose address is mac but for the case of the
\* letters, 0 if there is none
FirstSameMac(list, mac) ==
    IF \E i \in DOMAIN list : SameMac(list[i].MACAddress, mac)
    THEN CHOOSE i \in DOMAIN list :
            /\ SameMac(list[i].MACAddress, mac)
            /\ \A j \in 1..(i - 1) : ~SameMac(list[j].MACAddress, mac)
    ELSE 0

\* C6: the reconciler finds the address in a list whatever the case of its
\* letters: ADD to a list that has an entry of the address is no change, and
\* REMOVE deletes the first such entry.
C6_CaseInsensitiveLookup ==
    \A c \in Callers : \A b \in Reconciled(c) :
        LET mode == args[c].mode
            T == TargetIn(mode, b.state)
            first == FirstSameMac(T, args[c].mac)
        IN (/\ Called(c, "apply_wlan_filter")
            /\ mode \in FilterModes
            /\ first # 0)
           => /\ args[c].action = ADD =>
                    /\ ~b.result.need_action
                    /\ TargetOut(mode, b.result) = T
              /\ args[c].action = REMOVE =>
                    /\ b.result.need_action
                    /\ TargetOut(mode, b.result) =
                          SubSeq(T, 1, first - 1) \o SubSeq(T, first + 1, Len(T))

\* C7: a call of apply_wlan_filter with a mode that is not a FilterMode or an
\* action that is not a FilterAction raises InvalidActionError, whatever the
\* router has answered.
C7_InvalidArgumentsRaise ==
    \A c \in Callers :
        (Returned(c, "apply_wlan_filter") /\ ~ValidArgs(c))
        => ret[c] = "InvalidActionError"

\* C8: when the router has no record labelled "2.4GHz" or none labelled
\* "5GHz", the state of that band is None and apply_wlan_filter,
\* set_wlan_filter_mode and _set_wlan_filter_enabled return False without a
\* POST.
C8_MissingBand ==
    \A c \in Callers :
        (pc[c] # "idle"
         /\ (RouterRecords(LABEL_2G) = {} \/ RouterRecords(LABEL_5G) = {}))
        => /\ RouterRecords(LABEL_2G) = {} => state_2g[c] = NoneState
           /\ RouterRecords(LABEL_5G) = {} => state_5g[c] = NoneState
           /\ pc[c] = "done"
           /\ ret[c] = RetFalse
           /\ NoWrite(c)

\* the answer has a record of the 2.4GHz band and a record with a label that
\* is not known, and none of the 5GHz band
C8_Witness ==
    /\ Returned(1, "set_wlan_filter_mode")
    /\ Len(router) = 2
    /\ router[2].FrequencyBand = LABEL_OTHER
    /\ state_2g[1] = router[1]
    /\ state_5g[1] = NoneState
    /\ ret[1] = RetFalse

\* C9: when a band state lacks its whitelist or its blacklist, the
\* reconciler returns the null triple for that band and apply_wlan_filter
\* returns False without a POST, also when the 2.4GHz band was reconciled
\* with need_action true and the list is missing on the 5GHz band only.
C9_MissingList ==
    \A c \in Callers :
        (/\ Called(c, "apply_wlan_filter")
         /\ BothPresent(c)
         /\ ~ListsPresent(state_2g[c]) \/ ~ListsPresent(state_5g[c]))
        => /\ NoWrite(c)
           /\ ret[c] # RetTrue
           /\ ~ListsPresent(state_2g[c]) => result_2g[c].kind \in {None, "null"}
           /\ ~ListsPresent(state_5g[c]) => result_5g[c].kind \in {None, "null"}
           /\ (pc[c] = "done" /\ ValidArgs(c)) =>
                 /\ ret[c] = RetFalse
                 /\ \/ result_2g[c].kind = "null"
                    \/ result_5g[c].kind = "null"
                    \/ ~FlagIsTrue(state_2g[c]) \/ ~FlagIsTrue(state_5g[c])

\* the 2.4GHz band needs the action, the 5GHz band has no blacklist
C9_Witness ==
    /\ Returned(1, "apply_wlan_filter")
    /\ result_2g[1].kind = "ok" /\ result_2g[1].need_action
    /\ ~Has(state_5g[1], "BMACAddresses") /\ Has(state_5g[1], "WMACAddresses")
    /\ result_5g[1].kind = "null"
    /\ ret[1] = RetFalse

Count(seq, x) == Cardinality({i \in DOMAIN seq : seq[i] = x})

\* C10: a call of apply_wlan_filter reads the filter endpoint once, first;
\* it returns True without a POST when no band needs the action and issues
\* one POST, with config2g and config5g, when a band needs it; it never
\* issues a second POST, and none before both bands are reconciled.
C10_CallSequence ==
    \A c \in Callers :
        Called(c, "apply_wlan_filter")
        => /\ Len(trace[c]) >= 1 /\ trace[c][1] = "GET"
           /\ Count(trace[c], "GET") = 1
           /\ Count(trace[c], "POST") <= 1
           /\ Len(posted[c]) = Count(trace[c], "POST")
           /\ Count(trace[c], "POST") = 1 =>
                 /\ trace[c][Len(trace[c])] = "POST"
                 /\ result_2g[c].kind = "ok" /\ result_5g[c].kind = "ok"
                 /\ result_2g[c].need_action \/ result_5g[c].need_action
                 /\ DOMAIN posted[c][1] = {"config2g", "config5g"}
           /\ (/\ pc[c] = "done"
               /\ result_2g[c].kind = "ok" /\ result_5g[c].kind = "ok") =>
                 /\ ret[c] = RetTrue
                 /\ Count(trace[c], "POST") =
                       IF result_2g[c].need_action \/ result_5g[c].need_action
                       THEN 1 ELSE 0

\* a call that has asked for the known devices and then posted: only the
\* 5GHz band needed the action
C10_Witness ==
    /\ Returned(1, "apply_wlan_filter")
    /\ trace[1] = <<"GET", "HOSTS", "POST">>
    /\ ~result_2g[1].need_action /\ result_5g[1].need_action
    /\ Len(posted[1]) = 1
    /\ ret[1] = RetTrue

\* the keys of a band state and the keys of a config they are posted under
ConfigKeys ==
    {<<"MACAddressControlEnabled", "MACAddressControlEnabled">>,
     <<"WMACAddresses", "WMacFilters">>, <<"BMACAddresses", "BMacFilters">>,
     <<"ID", "ID">>, <<"MacFilterPolicy", "MacFilterPolicy">>,
     <<"FrequencyBand", "FrequencyBand">>}

\* the config carries the value the state has under key: the same value, or
\* none where the state has none
Carries(config, state, key) ==
    \A k \in ConfigKeys :
        k[1] = key =>
            IF Has(state, k[1])
            THEN Has(config, k[2]) /\ config[k[2]] = state[k[1]]
            ELSE ~Has(config, k[2])

\* the call has posted exactly the command cmd, or is about to
WritesOnce(c, cmd) ==
    /\ pc[c] \in {"post", "done"}
    /\ cmd = command[c]
    /\ pc[c] = "post" => posted[c] = <<>>
    /\ pc[c] = "done" => /\ posted[c] = <<cmd>>
                         /\ trace[c] = <<"GET", "POST">>
                         /\ ret[c] = RetTrue

\* C11: set_wlan_filter_mode(m) with both bands read returns True without a
\* POST exactly when the MacFilterPolicy of the 5GHz band is m already,
\* whatever the policy of the 2.4GHz band; otherwise it issues one POST whose
\* config2g and config5g have MacFilterPolicy m and the enabled flag, the
\* lists, the ID and the label of the band as read, and returns True.
C11_SetFilterMode ==
    \A c \in Callers :
        (Called(c, "set_wlan_filter_mode") /\ BothPresent(c))
        => LET m == FilterModeValue(args[c].value)
               same == /\ Has(state_5g[c], "MacFilterPolicy")
                       /\ state_5g[c].MacFilterPolicy = m
           IN /\ same => pc[c] = "done" /\ ret[c] = RetTrue /\ NoWrite(c)
              /\ ~same =>
                    /\ WritesOnce(c, command[c])
                    /\ DOMAIN command[c] = {"config2g", "config5g"}
                    /\ \A b \in {<<command[c].config2g, state_2g[c]>>,
                                 <<command[c].config5g, state_5g[c]>>} :
                          /\ b[1].MacFilterPolicy = m
                          /\ \A key \in {"MACAddressControlEnabled",
                                         "WMACAddresses", "BMACAddresses",
                                         "ID", "FrequencyBand"} :
                                Carries(b[1], b[2], key)

\* the 2.4GHz band has the policy asked for, the 5GHz band has not: the
\* command is posted
C11_Witness ==
    /\ Returned(1, "set_wlan_filter_mode")
    /\ BothPresent(1)
    /\ state_2g[1].MacFilterPolicy = FilterModeValue(args[1].value)
    /\ state_5g[1].MacFilterPolicy # FilterModeValue(args[1].value)
    /\ Len(posted[1]) = 1
    /\ state_5g[1].WMACAddresses # <<>>
    /\ ret[1] = RetTrue

\* C12: _set_wlan_filter_enabled(v) with both bands read takes filtering to
\* be on only if the flag of both bands is the boolean true; it returns True
\* without a POST when that equals v and otherwise issues one POST whose
\* config2g and config5g have the flag v and the lists, the policy, the ID
\* and the label of the band as read.
C12_SetFilterEnabled ==
    \A c \in Callers :
        (Called(c, "_set_wlan_filter_enabled") /\ BothPresent(c))
        => LET current == FlagIsTrue(state_2g[c]) /\ FlagIsTrue(state_5g[c])
           IN /\ current = args[c].value =>
                    pc[c] = "done" /\ ret[c] = RetTrue /\ NoWrite(c)
              /\ current # args[c].value =>
                    /\ WritesOnce(c, command[c])
                    /\ DOMAIN command[c] = {"config2g", "config5g"}
                    /\ \A b \in {<<command[c].config2g, state_2g[c]>>,
                                 <<command[c].config5g, state_5g[c]>>} :
                          /\ b[1].MACAddressControlEnabled = PyBool(args[c].value)
                          /\ \A key \in {"WMACAddresses", "BMACAddresses",
                                         "MacFilterPolicy", "ID",
                                         "FrequencyBand"} :
                                Carries(b[1], b[2], key)

\* filtering is switched on where both flags are truthy numbers and not
\* booleans
C12_Witness ==
    /\ Returned(1, "_set_wlan_filter_enabled")
    /\ BothPresent(1)
    /\ args[1].value = TRUE
    /\ Has(state_2g[1], "MACAddressControlEnabled")
    /\ state_2g[1].MACAddressControlEnabled = JOne
    /\ Has(state_5g[1], "MACAddressControlEnabled")
    /\ state_5g[1].MACAddressControlEnabled = JOne
    /\ Len(posted[1]) = 1
    /\ posted[1][1].config2g.MACAddressControlEnabled = JTrue
    /\ ret[1] = RetTrue

\* the record labelled label among records
TheRecord(records, label) ==
    CHOOSE r \in Range(records) : r.FrequencyBand = label

\* the entries of the address mac in the list, in their order
EntriesOf(list, mac) == SelectSeq(list, LAMBDA e : e.MACAddress = mac)

\* callers c and d have read the same lists, c has written and returned
\* True, d is about to write
StaleWriter(c, d) ==
    /\ c # d
    /\ Returned(c, "apply_wlan_filter") /\ ret[c] = RetTrue
    /\ Len(posted[c]) = 1
    /\ Called(d, "apply_wlan_filter") /\ pc[d] = "post"
    /\ args[c].mac # args[d].mac
    /\ state_2g[c] = state_2g[d] /\ state_5g[c] = state_5g[d]

\* C13: of two calls of apply_wlan_filter for different addresses that both
\* read the lists before either writes, the later POST leaves on the router
\* the lists the later caller has reconciled from what it read: they have
\* its own change, the entries of the earlier caller's address are as they
\* were read, and the later call returns True as the earlier one has.
C13_LostUpdate ==
    [][\A c, d \in Callers :
          (StaleWriter(c, d) /\ pc'[d] = "done")
          => /\ ret'[d] = RetTrue
             /\ \A b \in {<<TheRecord(router', LABEL_2G), state_2g[d], result_2g[d]>>,
                          <<TheRecord(router', LABEL_5G), state_5g[d], result_5g[d]>>} :
                   /\ b[1].WMACAddresses = b[3].whitelist
                   /\ b[1].BMACAddresses = b[3].blacklist
                   /\ \A key \in ListKeys :
                         EntriesOf(b[1][key], args[c].mac)
                             = EntriesOf(b[2][key], args[c].mac)]_vars

\* both callers have added their address to the whitelist and have had
\* True; the whitelists hold the address of caller 2 and not that of
\* caller 1, whose command had it
C13_Witness ==
    /\ Returned(1, "apply_wlan_filter") /\ Returned(2, "apply_wlan_filter")
    /\ ret[1] = RetTrue /\ ret[2] = RetTrue
    /\ args[1].action = ADD /\ args[2].action = ADD
    /\ args[1].mode = WHITELIST /\ args[2].mode = WHITELIST
    /\ args[1].mac # args[2].mac
    /\ state_2g[1] = state_2g[2] /\ state_5g[1] = state_5g[2]
    /\ Len(posted[1]) = 1 /\ Len(posted[2]) = 1
    /\ Holds(posted[1][1].config2g.WMacFilters, args[1].mac)
    /\ Holds(posted[1][1].config5g.WMacFilters, args[1].mac)
    /\ \A label \in {LABEL_2G, LABEL_5G} :
          /\ Holds(TheRecord(router, label).WMACAddresses, args[2].mac)
          /\ ~Holds(TheRecord(router, label).WMACAddresses, args[1].mac)

Contains(s, t) ==
    \E i \in 1..(Len(s) - Len(t) + 1) : SubSeq(s, i, i + Len(t) - 1) = t

\* the names of the known devices of the address mac, in the order of the
\* listing
NamesOf(known_devices, mac) ==
    [i \in DOMAIN SelectSeq(known_devices, LAMBDA d : d.mac_address = mac) |->
        SelectSeq(known_devices, LAMBDA d : d.mac_address = mac)[i].actual_name]

\* C15: an ADD of an address that neither list of the band holds appends to
\* the list named by mode one new entry of the address, whose name is the
\* name the caller has given if there is one, otherwise the name of the
\* first known device of the address, otherwise a placeholder that has the
\* address in it.
C15_NewEntryName ==
    \A c \in Callers : \A b \in Reconciled(c) :
        LET mode == args[c].mode
            mac == args[c].mac
            before == TargetIn(mode, b.state)
            after == TargetOut(mode, b.result)
            names == NamesOf(b.result.known_devices, mac)
        IN (/\ Called(c, "apply_wlan_filter")
            /\ args[c].action = ADD /\ mode \in FilterModes
            /\ ~Holds(b.state.WMACAddresses, mac)
            /\ ~Holds(b.state.BMACAddresses, mac))
           => /\ b.result.need_action
              /\ Len(after) = Len(before) + 1
              /\ SubSeq(after, 1, Len(before)) = before
              /\ after[Len(after)].MACAddress = mac
              /\ after[Len(after)].HostName =
                    IF args[c].name # NoName THEN args[c].name
                    ELSE IF names # <<>> THEN names[1]
                         ELSE "Unknown device " \o mac
              /\ Contains("Unknown device " \o mac, mac)

\* the three sources of the name are met: a name given, a listing with two
\* devices of the address, a listing without the address
C15_WitnessCase(kind) ==
    \E b \in Reconciled(1) :
        /\ Returned(1, "apply_wlan_filter")
        /\ args[1].action = ADD /\ args[1].mode \in FilterModes
        /\ ~Holds(b.state.WMACAddresses, args[1].mac)
        /\ ~Holds(b.state.BMACAddresses, args[1].mac)
        /\ ret[1] = RetTrue
        /\ LET after == TargetOut(args[1].mode, b.result)
               name == after[Len(after)].HostName
           IN CASE kind = "given" -> args[1].name = GivenName /\ name = GivenName
                [] kind = "known" -> /\ args[1].name = NoName
                                     /\ Len(NamesOf(b.result.known_devices,
                                                    args[1].mac)) = 2
                                     /\ name = "host aa"
                [] OTHER -> /\ args[1].name = NoName
                            /\ b.result.queried
                            /\ b.result.known_devices = <<>>
                            /\ name = "Unknown device " \o args[1].mac

C15_Witness == C15_WitnessCase("known")

\* C16: an ADD of an address that the list named by mode already holds
\* returns need_action false and both lists as the band had them: nothing
\* is removed from the other list, also where both lists hold the address.
C16_AddSatisfiedIsNoOp ==
    \A c \in Callers : \A b \in Reconciled(c) :
        (/\ Called(c, "apply_wlan_filter")
         /\ args[c].action = ADD /\ args[c].mode \in FilterModes
         /\ Holds(TargetIn(args[c].mode, b.state), args[c].mac))
        => /\ ~b.result.need_action
           /\ b.result.whitelist = b.state.WMACAddresses
           /\ b.result.blacklist = b.state.BMACAddresses

\* the list holds no two entries of one address, an address being the same
\* in upper and in lower case
NoDuplicates(list) ==
    \A i, j \in DOMAIN list :
        SameMac(list[i].MACAddress, list[j].MACAddress) => i = j

\* C17: for a band with both lists, neither list returned by
\* _process_access_lists holds two entries of the same MAC address.
C17_NoDuplicates ==
    \A c \in Callers : \A b \in Reconciled(c) :
        (/\ Called(c, "apply_wlan_filter")
         /\ NoDuplicates(b.state.WMACAddresses)
         /\ NoDuplicates(b.state.BMACAddresses))
        => /\ NoDuplicates(b.result.whitelist)
           /\ NoDuplicates(b.result.blacklist)

\* the commands of the call: the one posted, or the one about to be
Writes(c) ==
    IF pc[c] = "post" THEN {command[c]} ELSE Range(posted[c])

\* C18: in a command written by apply_wlan_filter the config of each band
\* has the ID, the MacFilterPolicy and the FrequencyBand of the band as
\* read, the flag true as read, and in each list the entries of every
\* address but the target as read, in their order.
C18_ApplyWriteFrame ==
    \A c \in Callers :
        Called(c, "apply_wlan_filter") =>
            \A cmd \in Writes(c) :
                \A b \in {<<cmd.config2g, state_2g[c]>>,
                          <<cmd.config5g, state_5g[c]>>} :
                    /\ \A key \in {"ID", "MacFilterPolicy", "FrequencyBand"} :
                          Carries(b[1], b[2], key)
                    /\ b[1].MACAddressControlEnabled = JTrue
                    /\ b[2].MACAddressControlEnabled = JTrue
                    /\ Without(b[1].WMacFilters, args[c].mac)
                           = Without(b[2].WMACAddresses, args[c].mac)
                    /\ Without(b[1].BMacFilters, args[c].mac)
                           = Without(b[2].BMACAddresses, args[c].mac)

\* a REMOVE of the first of two entries of a whitelist has been posted, with
\* the other entry kept
C18_Witness ==
    /\ Returned(1, "apply_wlan_filter")
    /\ args[1].action = REMOVE /\ args[1].mode = WHITELIST
    /\ Len(posted[1]) = 1
    /\ Len(state_2g[1].WMACAddresses) = 2
    /\ state_2g[1].WMACAddresses[1].MACAddress = args[1].mac
    /\ posted[1][1].config2g.WMacFilters = <<state_2g[1].WMACAddresses[2]>>
    /\ posted[1][1].config2g.ID = state_2g[1].ID
    /\ ret[1] = RetTrue

\* the results of the two calls of _process_access_lists that say the
\* listing of known devices was awaited
Queried(c) ==
    {b \in {<<LABEL_2G, result_2g[c]>>, <<LABEL_5G, result_5g[c]>>} :
        b[2].queried}

\* C19: in apply_wlan_filter the listing of known devices is fetched for a
\* band exactly when the action is ADD, no name is given and neither list
\* of the band holds the address: not for REMOVE, not with a name, not when
\* the entry is moved from the other list, not when the list named by mode
\* holds the address already; the requests of the call show one fetch for
\* each such band and no other.
C19_LazyNameResolution ==
    \A c \in Callers :
        Called(c, "apply_wlan_filter") =>
            /\ \A b \in Reconciled(c) :
                  b.result.queried
                  <=> (/\ args[c].action = ADD
                       /\ args[c].name = NoName
                       /\ ~Holds(b.state.WMACAddresses, args[c].mac)
                       /\ ~Holds(b.state.BMACAddresses, args[c].mac))
            /\ \A b \in Queried(c) : b[2].kind = "ok"
            /\ Count(trace[c], "HOSTS") = Cardinality(Queried(c))

\* an ADD without a name: the 2.4GHz band has the address in the other
\* list and the entry is moved, the 5GHz band has it in neither list and
\* the listing is fetched once
C19_Witness ==
    /\ Returned(1, "apply_wlan_filter")
    /\ args[1].action = ADD /\ args[1].mode \in FilterModes
    /\ args[1].name = NoName
    /\ UsableRead(1)
    /\ Holds(OtherIn(args[1].mode, state_2g[1]), args[1].mac)
    /\ ~Holds(state_5g[1].WMACAddresses, args[1].mac)
    /\ ~Holds(state_5g[1].BMACAddresses, args[1].mac)
    /\ ~result_2g[1].queried /\ result_5g[1].queried
    /\ trace[1] = <<"GET", "HOSTS", "POST">>
    /\ ret[1] = RetTrue

\* C20: set_wlan_filter_mode and _set_wlan_filter_enabled, with both bands
\* read and the whitelist or the blacklist of a band absent, return False
\* and issue no POST.
C20_ToggleMissingList ==
    \A c \in Callers :
        (/\ \/ Called(c, "set_wlan_filter_mode")
            \/ Called(c, "_set_wlan_filter_enabled")
         /\ BothPresent(c)
         /\ ~ListsPresent(state_2g[c]) \/ ~ListsPresent(state_5g[c]))
        => /\ pc[c] = "done"
           /\ ret[c] = RetFalse
           /\ NoWrite(c)

\* C22: when set_wlan_filter_mode(m) has returned True, the MacFilterPolicy
\* of the 2.4GHz band and of the 5GHz band of the router is m, whatever the
\* policies were before, also where the two differed.
C22_ModeSwitchPostcondition ==
    \A c \in Callers :
        (Returned(c, "set_wlan_filter_mode") /\ ret[c] = RetTrue)
        => \A label \in {LABEL_2G, LABEL_5G} :
              /\ RouterRecords(label) # {}
              /\ \A r \in RouterRecords(label) :
                    /\ Has(r, "MacFilterPolicy")
                    /\ r.MacFilterPolicy = FilterModeValue(args[c].value)

\* C23: when _set_wlan_filter_enabled(v) has returned True, the flag
\* MACAddressControlEnabled of both bands of the router is v; after a
\* disable neither band has filtering on, also where exactly one band had
\* it on before.
C23_EnableSwitchPostcondition ==
    \A c \in Callers :
        (Returned(c, "_set_wlan_filter_enabled") /\ ret[c] = RetTrue)
        => \A label \in {LABEL_2G, LABEL_5G} :
              /\ RouterRecords(label) # {}
              /\ \A r \in RouterRecords(label) :
                    /\ Has(r, "MACAddressControlEnabled")
                    /\ r.MACAddressControlEnabled = PyBool(args[c].value)

\* the places of the failed requests in the requests of the call
Failed(c) ==
    {i \in DOMAIN trace[c] : trace[c][i] \in {GET_FAILED, HOSTS_FAILED, POST_FAILED}}

\* C21: when the GET of the filter endpoint, the listing of known devices
\* or the POST fails in apply_wlan_filter, set_wlan_filter_mode or
\* _set_wlan_filter_enabled, the call ends with the error of the transport
\* and with no other outcome; the failed request is the last request of the
\* call, so it is not made again, and after a failed GET or a failed
\* listing no POST is made.
C21_TransportFailure ==
    \A c \in Callers :
        /\ (pc[c] = "done" /\ ret[c] = RetApiCallError) <=> Failed(c) # {}
        /\ \A i \in Failed(c) :
              /\ i = Len(trace[c])
              /\ trace[c][i] \in {GET_FAILED, HOSTS_FAILED} =>
                    /\ posted[c] = <<>>
                    /\ Count(trace[c], "POST") = 0
              /\ trace[c][i] = GET_FAILED => trace[c] = <<GET_FAILED>>
              /\ trace[c][i] = POST_FAILED => Len(posted[c]) = 1

\* an ADD without a name: the entry of the 2.4GHz band is moved from the
\* other list, the listing fails for the 5GHz band and nothing is posted
C21_Witness ==
    /\ Returned(1, "apply_wlan_filter")
    /\ ret[1] = RetApiCallError
    /\ trace[1] = <<"GET", HOSTS_FAILED>>
    /\ result_2g[1].kind = "ok" /\ result_2g[1].need_action
    /\ result_5g[1] = NoResult
    /\ posted[1] = <<>>
    /\ RouterAsRead(1)

\* C24: a feature is among the available features only if the router has
\* answered the GET of its endpoint, and with a value that is not null: the
\* WLAN filter feature like NFC, 802.11r and TWT; a GET rejected as
\* unauthorized makes the probe false and leaves the feature out.
C24_FilterFeatureProbing ==
    /\ FEATURE_NFC \in available_features
          => answers[FEATURE_NFC] = ANSWER_VALUE
    /\ FEATURE_WIFI_80211R \in available_features
          => answers[FEATURE_WIFI_80211R] = ANSWER_VALUE
    /\ FEATURE_WIFI_TWT \in available_features
          => answers[FEATURE_WIFI_TWT] = ANSWER_VALUE
    /\ FEATURE_WLAN_FILTER \in available_features
          => answers[FEATURE_WLAN_FILTER] \in {ANSWER_VALUE, ANSWER_NO_VALUE}
    /\ answers[FEATURE_WLAN_FILTER] = ANSWER_UNAUTHORIZED
          => update_pc = "done" /\ FEATURE_WLAN_FILTER \notin available_features

====
